---- MODULE Spec2Model ----
(***************************************************************************)
(* react-native-gradient-mask: the gradient mask views of the three        *)
(* backends (Android cached-bitmap view, web CSS mask views, iOS layer     *)
(* mask view) as state machines, one action per handler.                   *)
(*                                                                         *)
(* Numbers.  An intensity (maskOpacity) or a location k stands for the     *)
(* real k / Den; Den is a power of two, so every such value is exactly     *)
(* representable as a float and as a double.  An alpha byte A stands for   *)
(* A / 255 wherever the code divides by 255.                               *)
(***************************************************************************)
EXTENDS Integers, Sequences, FiniteSets, TLC

\* ------------------------------------------------------------------ bounds
IntensityBits == 1

Den == 2 ^ IntensityBits

\* Intensities handed to the views, in units of 1/Den: below 0, in range, above 1.
Intensities == -1 .. (Den + 1)


\* A nullable value (Kotlin T?, Swift T?).
None == [some |-> FALSE, v |-> <<>>]
Some(x) == [some |-> TRUE, v |-> x]

\* ------------------------------------------- IEEE-754 double arithmetic (JS)
(***************************************************************************)
(* A JS number in [0, 2^15) is held exactly as a fixed-point number of     *)
(* FxLimbs limbs of 15 bits, most significant first: limb 1 is the integer *)
(* part, limbs 2..FxLimbs the fraction.  Bit g (1 = top bit of limb 1) has *)
(* weight 2^(15 - g).  Every arithmetic operation of the web code is the   *)
(* exact operation followed by rounding to the 53 significant bits of a    *)
(* double, ties to even.                                                   *)
(***************************************************************************)
DoubleMantissa == 53
FxBase == 2 ^ 15
FxLimbs == 5 + 1
FxBits == 15 * FxLimbs

FxFromInt(n) == [i \in 1..FxLimbs |-> IF i = 1 THEN n ELSE 0]

\* Limbs i..1 of x + y given the carry into limb i; acc holds limbs i+1..FxLimbs.
RECURSIVE FxAddFrom(_, _, _, _, _)
FxAddFrom(x, y, i, carry, acc) ==
    IF i = 0 THEN acc
    ELSE FxAddFrom(x, y, i - 1, (x[i] + y[i] + carry) \div FxBase,
                   <<(x[i] + y[i] + carry) % FxBase>> \o acc)

FxAdd(x, y) == FxAddFrom(x, y, FxLimbs, 0, <<>>)

RECURSIVE FxSubFrom(_, _, _, _, _)
FxSubFrom(x, y, i, borrow, acc) ==
    IF i = 0 THEN acc
    ELSE FxSubFrom(x, y, i - 1, IF x[i] - y[i] - borrow < 0 THEN 1 ELSE 0,
                   <<(x[i] - y[i] - borrow) % FxBase>> \o acc)

\* x - y for x >= y
FxSub(x, y) == FxSubFrom(x, y, FxLimbs, 0, <<>>)

RECURSIVE FxMulFrom(_, _, _, _, _)
FxMulFrom(x, n, i, carry, acc) ==
    IF i = 0 THEN acc
    ELSE FxMulFrom(x, n, i - 1, (x[i] * n + carry) \div FxBase,
                   <<(x[i] * n + carry) % FxBase>> \o acc)

\* x * n for a natural n < 2^15
FxMulSmall(x, n) == FxMulFrom(x, n, FxLimbs, 0, <<>>)

\* Long division from limb i on, rem the remainder so far, acc the quotient limbs.
RECURSIVE FxDivFrom(_, _, _, _, _)
FxDivFrom(x, n, i, rem, acc) ==
    IF i > FxLimbs THEN [q |-> acc, inexact |-> rem # 0]
    ELSE FxDivFrom(x, n, i + 1, (rem * FxBase + x[i]) % n,
                   acc \o <<(rem * FxBase + x[i]) \div n>>)

\* x / n for a natural n < 2^15: the quotient truncated to the fraction limbs, and
\* whether anything was cut off
FxDivSmall(x, n) == FxDivFrom(x, n, 1, 0, <<>>)

\* Bit g of x
FxBit(x, g) == (x[((g - 1) \div 15) + 1] \div 2 ^ (14 - ((g - 1) % 15))) % 2

\* The number whose only non-zero bit is bit g
FxUnit(g) ==
    [i \in 1..FxLimbs |->
        IF i = ((g - 1) \div 15) + 1 THEN 2 ^ (14 - ((g - 1) % 15)) ELSE 0]

\* x with the bits after bit g cleared
FxTrunc(x, g) ==
    [i \in 1..FxLimbs |->
        IF i < ((g - 1) \div 15) + 1 THEN x[i]
        ELSE IF i > ((g - 1) \div 15) + 1 THEN 0
        ELSE x[i] - (x[i] % 2 ^ (14 - ((g - 1) % 15)))]

\* Round to nearest double, ties to even; `inexact`: the exact value has further
\* non-zero bits below the last limb.
FxRound(x, inexact) ==
    IF \A g \in 1..FxBits : FxBit(x, g) = 0 THEN x
    ELSE LET msb == CHOOSE g \in 1..FxBits :
                        FxBit(x, g) = 1 /\ \A f \in 1..(g - 1) : FxBit(x, f) = 0
             last == msb + DoubleMantissa - 1
         IN IF last >= FxBits THEN x
            ELSE LET sticky == inexact \/ FxTrunc(x, last + 1) # FxTrunc(x, FxBits)
                     up == FxBit(x, last + 1) = 1 /\ (sticky \/ FxBit(x, last) = 1)
                 IN IF up THEN FxAdd(FxTrunc(x, last), FxUnit(last))
                    ELSE FxTrunc(x, last)

\* Math.round: the nearest integer, ties towards +Infinity
MathRound(x) == x[1] + FxBit(x, 16)

\* ------------------------------------------------- Android (cached variant)
VARIABLES
    colors,                 \* IntArray? : packed ARGB as signed 32-bit ints
    locations,              \* FloatArray? : units of 1/Den
    direction,              \* String
    maskOpacity,            \* Float, units of 1/Den
    baseMaskBitmap,         \* Bitmap?
    baseBitmapInvalidated,  \* Boolean
    width, height,          \* View.getWidth() / getHeight()
    layoutPending,          \* inside View.layout(): onSizeChanged ran, onLayout is next
    dirty,                  \* invalidate() was called and no draw has happened since
    drawn,                  \* what the last handler put on the canvas
    lastOp,                 \* the handler that ran last
    rebuilt,                \* the last handler executed updateBaseMaskBitmap
    clean,                  \* since the held bitmap was built: only draws and prop
                            \* updates whose values equal the stored ones
    scenario,               \* an update of one component followed by one draw
    live,                   \* bitmaps the view created and has not recycled
    awaitingFirstDraw,      \* the size became positive and no draw has happened since
    opacityArg,             \* the argument of setMaskOpacity, when it was the last
                            \* handler before the draws that followed
    recycledHeld,           \* baseMaskBitmap refers to a bitmap that was recycled
    nullArg                 \* the last handler was setColors or setLocations and its
                            \* argument was null

androidVars == <<colors, locations, direction, maskOpacity, baseMaskBitmap,
                 baseBitmapInvalidated, width, height, layoutPending, dirty, drawn,
                 lastOp, rebuilt, clean, scenario, live, awaitingFirstDraw,
                 opacityArg, recycledHeld, nullArg>>

\* Props the JS side can hand to the Android view.
\* ---- the web GradientMaskView
VARIABLES
    props,        \* the props of the mounted GradientMaskView
    maskStyle,    \* the mask style of its last render
    gradientStringBuilt   \* its last render ran buildGradientString

webVars == <<props, maskStyle, gradientStringBuilt>>

\* ---- the iOS GradientMaskView
VARIABLES
    _colors,            \* [CGColor], each <<r, g, b, a>> in units of 1/255
    _locations,         \* [NSNumber], units of 1/Den
    _direction,         \* String
    _maskOpacity,       \* CGFloat, units of 1/Den
    gradientMaskLayer,  \* CAGradientLayer: colors, locations, startPoint, endPoint, frame
    solidMaskLayer,     \* CALayer: opacity (units of 1/Den) and frame
    layerMask,          \* layer.mask is the composite of the two layers
    bounds              \* the bounds of the view, <<width, height>>

iosVars == <<_colors, _locations, _direction, _maskOpacity, gradientMaskLayer,
             solidMaskLayer, layerMask, bounds>>

\* ---- the rebuild-per-intensity GradientMaskView (Android), given the same props,
\* ---- sizes and draws as the view above; its colors, locations, direction,
\* ---- maskOpacity, width and height hold the same values as that view's
VARIABLES
    maskBitmap,             \* Bitmap? : the gradient with maskOpacity blended in
    maskBitmapInvalidated,  \* Boolean
    maskDrawn               \* what its last dispatchDraw composited

rebuildVars == <<maskBitmap, maskBitmapInvalidated, maskDrawn>>

\* ---- the helper functions applied on their own
VARIABLES
    call,         \* the function applied last and its arguments
    result        \* what it returned

pureVars == <<call, result>>

\* ---- the web AnimatedGradientMaskView
VARIABLES
    sharedValue,        \* maskOpacity.value, units of 1/Den
    posted,             \* the setCurrentOpacity calls posted by runOnJS and not yet run
    currentOpacity,     \* the React state
    animatedMaskStyle   \* the mask style of the last render

animatedVars == <<sharedValue, posted, currentOpacity, animatedMaskStyle>>

\* ---- the demo screen (CharacterChatScreenV3DTest)
VARIABLES
    autoSwitch,         \* React state
    isStressTest,       \* React state
    screenMaskOpacity,  \* maskOpacity.value of the screen, units of 1/Den
    animation,          \* the withTiming animation assigned to maskOpacity.value
    isAtBottomRef,      \* isAtBottomRef.current
    isAtBottom,         \* React state
    event,              \* the handler that ran last, its argument, the target of the
                        \* animation it started (-1: none), and whether it called
                        \* cancelAnimation
    stressTestUsed      \* the stress test was switched on at some time

screenVars == <<autoSwitch, isStressTest, screenMaskOpacity, animation, isAtBottomRef,
                isAtBottom, event, stressTestUsed>>

VARIABLE platform    \* the backend the app runs on

vars == <<platform, androidVars, rebuildVars, webVars, iosVars, pureVars, animatedVars,
          screenVars>>

\* Each run is one view on one backend; a handler of a backend leaves the others alone.
AndroidFrame ==
    platform = "android"
        /\ UNCHANGED <<platform, webVars, iosVars, pureVars, animatedVars,
                       screenVars>>
WebFrame ==
    platform = "web"
        /\ UNCHANGED <<platform, androidVars, rebuildVars, iosVars, pureVars,
                       animatedVars, screenVars>>
IosFrame ==
    platform = "ios"
        /\ UNCHANGED <<platform, androidVars, rebuildVars, webVars, pureVars,
                       animatedVars, screenVars>>
PureFrame ==
    platform = "functions"
        /\ UNCHANGED <<platform, androidVars, rebuildVars, webVars, iosVars,
                       animatedVars, screenVars>>
AnimatedFrame ==
    platform = "webAnimated"
        /\ UNCHANGED <<platform, androidVars, rebuildVars, webVars, iosVars, pureVars,
                       screenVars>>
ScreenFrame ==
    platform = "screen"
        /\ UNCHANGED <<platform, androidVars, rebuildVars, webVars, iosVars, pureVars,
                       animatedVars>>

AndroidColorArrays ==
    { None, Some(<<>>), Some(<<0, -16777216>>), Some(<<-2147483647 - 1>>) }
AndroidLocationArrays ==
    { None, Some(<<0, Den>>), Some(<<>>) }
Directions == { "top", "left" }
\* Sizes the layout pass can give the view: <<width, height>>.
Sizes == { <<0, 0>>, <<1, 1>>, <<2, 1>> }

\* android.graphics.Color.alpha(c) = c >>> 24
ColorAlpha(c) == (c \div 16777216) % 256

\* android.graphics.Color.argb(a, r, g, b), as a signed 32-bit int
ColorArgb(a, r, g, b) ==
    (IF a >= 128 THEN a - 256 ELSE a) * 16777216 + r * 65536 + g * 256 + b

NoBitmap == [null |-> TRUE]

\* A getGradientCoordinates with left and right exchanged.
getGradientCoordinatesMirrored(dir, w, h) ==
    CASE dir = "top" -> <<0, 0, 0, h>>
      [] dir = "bottom" -> <<0, h, 0, 0>>
      [] dir = "left" -> <<w, 0, 0, 0>>
      [] dir = "right" -> <<0, 0, w, 0>>
      [] OTHER -> <<0, 0, 0, h>>

getGradientCoordinates(dir, w, h) ==
    CASE dir = "top" -> <<0, 0, 0, h>>
      [] dir = "bottom" -> <<0, h, 0, 0>>
      [] dir = "left" -> <<0, 0, w, 0>>
      [] dir = "right" -> <<w, 0, 0, 0>>
      [] OTHER -> <<0, 0, 0, h>>

\* The cache key of the base field.
CurrentKey == <<colors, locations, direction, width, height>>

\* The bitmap updateBaseMaskBitmap leaves in baseMaskBitmap when the view is w x h.
\* `key` records the values the pixels were computed from.
updateBaseMaskBitmap(w, h) ==
    IF w <= 0 \/ h <= 0 THEN baseMaskBitmap
    ELSE IF \/ ~colors.some \/ ~locations.some
            \/ Len(colors.v) # Len(locations.v)
            \/ Len(colors.v) = 0
    THEN [null |-> FALSE, kind |-> "white", maskColors |-> <<>>,
          positions |-> <<>>, coords |-> <<0, 0, 0, 0>>,
          key |-> <<colors, locations, direction, w, h>>]
    ELSE [null |-> FALSE, kind |-> "gradient",
          maskColors |-> [i \in 1..Len(colors.v) |->
                             ColorArgb(ColorAlpha(colors.v[i]), 255, 255, 255)],
          positions |-> locations.v,
          coords |-> getGradientCoordinates(direction, w, h),
          key |-> <<colors, locations, direction, w, h>>]

\* baseMaskBitmap?.recycle(): the unrecycled bitmaps left of n
Recycle(bitmap, n) == IF bitmap = NoBitmap THEN n ELSE n - 1

\* An updateBaseMaskBitmap that creates the new bitmap without recycling the old one.
LiveAfterUpdateLeaking(w, h) ==
    IF w <= 0 \/ h <= 0 THEN live ELSE live + 1

\* The unrecycled bitmaps after updateBaseMaskBitmap on a w x h view: the old bitmap
\* is recycled and a new one created, unless the size check returns first.
LiveAfterUpdate(w, h) ==
    IF w <= 0 \/ h <= 0 THEN live ELSE Recycle(baseMaskBitmap, live) + 1

\* Whether baseMaskBitmap refers to a recycled bitmap after updateBaseMaskBitmap on a
\* w x h view: the old bitmap is recycled, and the field then assigned the new one.
RecycledAfterUpdate(w, h) ==
    IF w <= 0 \/ h <= 0 THEN recycledHeld ELSE FALSE

\* ---- observation of the handlers (no field of the view)
NoScenario == [kind |-> "none", phase |-> "none", n |-> 0]

\* A handler changed key component `kind` (or "maskOpacity"), executing
\* updateBaseMaskBitmap n times; a size change is followed by onLayout.
Begin(kind, n) ==
    [kind |-> kind,
     phase |-> IF kind \in {"width", "height"} THEN "layout" ELSE "changed",
     n |-> n]

Nothing == [mode |-> "nothing", layer |-> FALSE, bitmap |-> NoBitmap,
            filtered |-> FALSE, alphaRow |-> <<Den, 0>>]

\* A handler other than dispatchDraw ran: op its name, n the executions of
\* updateBaseMaskBitmap in it, sc the scenario it leaves, keepsClean whether it is an
\* update with a value equal to the stored one.
Track(op, n, sc, keepsClean) ==
    /\ lastOp' = op
    /\ rebuilt' = (n > 0)
    /\ scenario' = sc
    /\ clean' = IF n > 0 THEN TRUE ELSE (clean /\ keepsClean)
    /\ drawn' = Nothing

Built == baseMaskBitmap # NoBitmap

\* A setColors that keeps the stored colours when it is given null.
setColorsIgnoringNull(colorArray) ==
    /\ AndroidFrame
    /\ ~layoutPending
    /\ colors' = (IF colorArray = None THEN colors ELSE colorArray)
    /\ baseBitmapInvalidated' = TRUE
    /\ dirty' = TRUE
    /\ Track("setColors", 0,
             IF colorArray # colors /\ Built THEN Begin("colors", 0) ELSE NoScenario,
             colorArray = colors)
    /\ UNCHANGED <<locations, direction, maskOpacity, baseMaskBitmap, width, height,
                   layoutPending>>
    /\ UNCHANGED <<live, awaitingFirstDraw, recycledHeld>>
    /\ opacityArg' = None
    /\ nullArg' = (colorArray = None)

setColors(colorArray) ==
    /\ AndroidFrame
    /\ ~layoutPending
    /\ colors' = colorArray
    /\ baseBitmapInvalidated' = TRUE
    /\ dirty' = TRUE
    /\ Track("setColors", 0,
             IF colorArray # colors /\ Built THEN Begin("colors", 0) ELSE NoScenario,
             colorArray = colors)
    /\ UNCHANGED <<locations, direction, maskOpacity, baseMaskBitmap, width, height,
                   layoutPending>>
    /\ UNCHANGED <<live, awaitingFirstDraw, recycledHeld>>
    /\ opacityArg' = None
    /\ nullArg' = (colorArray = None)

setLocations(locationArray) ==
    /\ AndroidFrame
    /\ ~layoutPending
    /\ locations' = locationArray
    /\ baseBitmapInvalidated' = TRUE
    /\ dirty' = TRUE
    /\ Track("setLocations", 0,
             IF locationArray # locations /\ Built
             THEN Begin("locations", 0) ELSE NoScenario,
             locationArray = locations)
    /\ UNCHANGED <<colors, direction, maskOpacity, baseMaskBitmap, width, height,
                   layoutPending>>
    /\ UNCHANGED <<live, awaitingFirstDraw, recycledHeld>>
    /\ opacityArg' = None
    /\ nullArg' = (locationArray = None)

\* A setDirection that stores the direction without invalidating the base bitmap.
setDirectionKeepingBitmap(dir) ==
    /\ AndroidFrame
    /\ ~layoutPending
    /\ direction' = dir
    /\ dirty' = TRUE
    /\ Track("setDirection", 0,
             IF dir # direction /\ Built THEN Begin("direction", 0) ELSE NoScenario,
             dir = direction)
    /\ UNCHANGED <<colors, locations, maskOpacity, baseMaskBitmap,
                   baseBitmapInvalidated, width, height, layoutPending>>
    /\ UNCHANGED <<live, awaitingFirstDraw, recycledHeld>>
    /\ opacityArg' = None
    /\ nullArg' = FALSE

setDirection(dir) ==
    /\ AndroidFrame
    /\ ~layoutPending
    /\ direction' = dir
    /\ baseBitmapInvalidated' = TRUE
    /\ dirty' = TRUE
    /\ Track("setDirection", 0,
             IF dir # direction /\ Built THEN Begin("direction", 0) ELSE NoScenario,
             dir = direction)
    /\ UNCHANGED <<colors, locations, maskOpacity, baseMaskBitmap, width, height,
                   layoutPending>>
    /\ UNCHANGED <<live, awaitingFirstDraw, recycledHeld>>
    /\ opacityArg' = None
    /\ nullArg' = FALSE

\* opacity.toFloat().coerceIn(0f, 1f)
coerceIn(x, lo, hi) == IF x < lo THEN lo ELSE IF x > hi THEN hi ELSE x

\* A setMaskOpacity that also invalidates the base bitmap, as the setter of the
\* rebuild-per-intensity view does.
setMaskOpacityInvalidating(opacity) ==
    /\ AndroidFrame
    /\ ~layoutPending
    /\ maskOpacity' = coerceIn(opacity, 0, Den)
    /\ baseBitmapInvalidated' = TRUE
    /\ dirty' = TRUE
    /\ Track("setMaskOpacity", 0,
             IF ~baseBitmapInvalidated THEN Begin("maskOpacity", 0) ELSE NoScenario,
             FALSE)
    /\ UNCHANGED <<colors, locations, direction, baseMaskBitmap, width, height,
                   layoutPending>>
    /\ UNCHANGED <<live, awaitingFirstDraw, recycledHeld>>
    /\ opacityArg' = Some(opacity)
    /\ nullArg' = FALSE

\* A setMaskOpacity that drops the value while a redraw is already requested.
setMaskOpacityDroppedWhilePending(opacity) ==
    /\ AndroidFrame
    /\ ~layoutPending
    /\ LET newOpacity == coerceIn(opacity, 0, Den)
       IN IF newOpacity # maskOpacity /\ ~dirty
          THEN maskOpacity' = newOpacity /\ dirty' = TRUE
          ELSE UNCHANGED <<maskOpacity, dirty>>
    /\ Track("setMaskOpacity", 0,
             IF ~baseBitmapInvalidated THEN Begin("maskOpacity", 0) ELSE NoScenario,
             FALSE)
    /\ UNCHANGED <<colors, locations, direction, baseMaskBitmap, baseBitmapInvalidated,
                   width, height, layoutPending>>
    /\ UNCHANGED <<live, awaitingFirstDraw, recycledHeld>>
    /\ opacityArg' = Some(opacity)
    /\ nullArg' = FALSE

\* A setMaskOpacity that stores the value and calls invalidate() whether or not the
\* value differs from the stored one.
setMaskOpacityAlwaysRedrawing(opacity) ==
    /\ AndroidFrame
    /\ ~layoutPending
    /\ maskOpacity' = coerceIn(opacity, 0, Den)
    /\ dirty' = TRUE
    /\ Track("setMaskOpacity", 0,
             IF ~baseBitmapInvalidated THEN Begin("maskOpacity", 0) ELSE NoScenario,
             FALSE)
    /\ UNCHANGED <<colors, locations, direction, baseMaskBitmap, baseBitmapInvalidated,
                   width, height, layoutPending>>
    /\ UNCHANGED <<live, awaitingFirstDraw, recycledHeld>>
    /\ opacityArg' = Some(opacity)
    /\ nullArg' = FALSE

setMaskOpacity(opacity) ==
    /\ AndroidFrame
    /\ ~layoutPending
    /\ LET newOpacity == coerceIn(opacity, 0, Den)
       IN IF newOpacity # maskOpacity
          THEN maskOpacity' = newOpacity /\ dirty' = TRUE
          ELSE UNCHANGED <<maskOpacity, dirty>>
    /\ Track("setMaskOpacity", 0,
             IF ~baseBitmapInvalidated THEN Begin("maskOpacity", 0) ELSE NoScenario,
             FALSE)
    /\ UNCHANGED <<colors, locations, direction, baseMaskBitmap, baseBitmapInvalidated,
                   width, height, layoutPending>>
    /\ UNCHANGED <<live, awaitingFirstDraw, recycledHeld>>
    /\ opacityArg' = Some(opacity)
    /\ nullArg' = FALSE

\* View.layout() assigns the new frame and calls onSizeChanged when the size differs
\* from the old one; onLayout(changed = true) follows before anything else runs.
SizeChangeKind(w, h) ==
    IF w # width /\ h # height THEN "size" ELSE IF w # width THEN "width" ELSE "height"

onSizeChanged(w, h) ==
    /\ AndroidFrame
    /\ ~layoutPending
    /\ <<w, h>> # <<width, height>>
    /\ width' = w
    /\ height' = h
    /\ IF w > 0 /\ h > 0
       THEN /\ baseMaskBitmap' = updateBaseMaskBitmap(w, h)
            /\ live' = LiveAfterUpdate(w, h)
            /\ recycledHeld' = RecycledAfterUpdate(w, h)
            /\ baseBitmapInvalidated' = FALSE
       ELSE UNCHANGED <<baseMaskBitmap, live, recycledHeld, baseBitmapInvalidated>>
    /\ awaitingFirstDraw' = IF w > 0 /\ h > 0
                            THEN (awaitingFirstDraw \/ width <= 0 \/ height <= 0)
                            ELSE FALSE
    /\ LET n == IF w > 0 /\ h > 0 THEN 1 ELSE 0
       IN Track("onSizeChanged", n,
                IF SizeChangeKind(w, h) # "size" /\ Built
                THEN Begin(SizeChangeKind(w, h), n) ELSE NoScenario,
                FALSE)
    /\ layoutPending' = TRUE
    /\ UNCHANGED <<colors, locations, direction, maskOpacity, dirty>>
    /\ opacityArg' = None
    /\ nullArg' = FALSE

\* onLayout(changed, l, t, r, b): changed is true after a size change, and true or
\* false otherwise (a move, a forced layout).
onLayout(changed) ==
    /\ AndroidFrame
    /\ layoutPending => changed
    /\ baseBitmapInvalidated' = (IF changed THEN TRUE ELSE baseBitmapInvalidated)
    /\ layoutPending' = FALSE
    /\ Track("onLayout", 0,
             IF scenario.phase = "layout"
             THEN [scenario EXCEPT !.phase = "changed"] ELSE NoScenario,
             FALSE)
    /\ UNCHANGED <<colors, locations, direction, maskOpacity, baseMaskBitmap, width,
                   height, dirty>>
    /\ UNCHANGED <<live, awaitingFirstDraw, recycledHeld>>
    /\ opacityArg' = None
    /\ nullArg' = FALSE

PassThrough == [mode |-> "unmasked", layer |-> FALSE, bitmap |-> NoBitmap,
                filtered |-> FALSE, alphaRow |-> <<Den, 0>>]

\* The alpha row [0, 0, 0, scale, translate] of the ColorMatrix, both in units of
\* 1/Den: scale = maskOpacity, translate = 255 * (1 - maskOpacity).
AlphaRow(opacity) == <<opacity, 255 * (Den - opacity)>>

\* A compositing step without the short-circuit at maskOpacity <= 0.
CompositeAtAnyOpacity(bitmap) ==
    IF bitmap = NoBitmap
    THEN PassThrough
    ELSE [mode |-> "masked", layer |-> TRUE, bitmap |-> bitmap,
          filtered |-> (maskOpacity < Den),
          alphaRow |-> IF maskOpacity < Den THEN AlphaRow(maskOpacity) ELSE <<Den, 0>>]

\* What dispatchDraw composites, given the bitmap it reads from baseMaskBitmap.
Composite(bitmap) ==
    IF bitmap = NoBitmap \/ maskOpacity <= 0
    THEN PassThrough
    ELSE [mode |-> "masked", layer |-> TRUE, bitmap |-> bitmap,
          filtered |-> (maskOpacity < Den),
          alphaRow |-> IF maskOpacity < Den THEN AlphaRow(maskOpacity) ELSE <<Den, 0>>]

\* A dispatchDraw without the size check at its head.
dispatchDrawAtAnySize ==
    /\ AndroidFrame
    /\ ~layoutPending
    /\ LET sized == TRUE
           rebuild == sized /\ baseBitmapInvalidated
           bitmap == IF rebuild THEN updateBaseMaskBitmap(width, height)
                     ELSE baseMaskBitmap
       IN /\ baseMaskBitmap' = bitmap
          /\ live' = (IF rebuild THEN LiveAfterUpdate(width, height) ELSE live)
          /\ recycledHeld' = (IF rebuild THEN RecycledAfterUpdate(width, height)
                              ELSE recycledHeld)
          /\ baseBitmapInvalidated' = (IF sized THEN FALSE ELSE baseBitmapInvalidated)
          /\ awaitingFirstDraw' = (IF sized THEN FALSE ELSE awaitingFirstDraw)
          /\ drawn' = IF sized THEN Composite(bitmap) ELSE PassThrough
          /\ rebuilt' = rebuild
          /\ clean' = (rebuild \/ clean)
          /\ scenario' = IF scenario.phase = "changed"
                         THEN [scenario EXCEPT !.phase = "drawn",
                                               !.n = @ + (IF rebuild THEN 1 ELSE 0)]
                         ELSE NoScenario
    /\ lastOp' = "dispatchDraw"
    /\ dirty' = FALSE
    /\ UNCHANGED <<colors, locations, direction, maskOpacity, width, height,
                   layoutPending>>
    /\ UNCHANGED opacityArg
    /\ nullArg' = FALSE

dispatchDraw ==
    /\ AndroidFrame
    /\ ~layoutPending
    /\ LET sized == width > 0 /\ height > 0
           rebuild == sized /\ baseBitmapInvalidated
           bitmap == IF rebuild THEN updateBaseMaskBitmap(width, height)
                     ELSE baseMaskBitmap
       IN /\ baseMaskBitmap' = bitmap
          /\ live' = (IF rebuild THEN LiveAfterUpdate(width, height) ELSE live)
          /\ recycledHeld' = (IF rebuild THEN RecycledAfterUpdate(width, height)
                              ELSE recycledHeld)
          /\ baseBitmapInvalidated' = (IF sized THEN FALSE ELSE baseBitmapInvalidated)
          /\ awaitingFirstDraw' = (IF sized THEN FALSE ELSE awaitingFirstDraw)
          /\ drawn' = IF sized THEN Composite(bitmap) ELSE PassThrough
          /\ rebuilt' = rebuild
          /\ clean' = (rebuild \/ clean)
          /\ scenario' = IF scenario.phase = "changed"
                         THEN [scenario EXCEPT !.phase = "drawn",
                                               !.n = @ + (IF rebuild THEN 1 ELSE 0)]
                         ELSE NoScenario
    /\ lastOp' = "dispatchDraw"
    /\ dirty' = FALSE
    /\ UNCHANGED <<colors, locations, direction, maskOpacity, width, height,
                   layoutPending>>
    /\ UNCHANGED opacityArg
    /\ nullArg' = FALSE

\* An onDetachedFromWindow that recycles the bitmap and keeps the reference to it.
onDetachedFromWindowKeepingReference ==
    /\ AndroidFrame
    /\ ~layoutPending
    /\ live' = Recycle(baseMaskBitmap, live)
    /\ recycledHeld' = (baseMaskBitmap # NoBitmap)
    /\ Track("onDetachedFromWindow", 0, NoScenario, FALSE)
    /\ UNCHANGED <<colors, locations, direction, maskOpacity, baseMaskBitmap,
                   baseBitmapInvalidated, width, height, layoutPending, dirty>>
    /\ UNCHANGED awaitingFirstDraw
    /\ opacityArg' = None
    /\ nullArg' = FALSE

onDetachedFromWindow ==
    /\ AndroidFrame
    /\ ~layoutPending
    /\ live' = Recycle(baseMaskBitmap, live)
    /\ baseMaskBitmap' = NoBitmap
    /\ recycledHeld' = FALSE
    /\ Track("onDetachedFromWindow", 0, NoScenario, FALSE)
    /\ UNCHANGED <<colors, locations, direction, maskOpacity, baseBitmapInvalidated,
                   width, height, layoutPending, dirty>>
    /\ UNCHANGED awaitingFirstDraw
    /\ opacityArg' = None
    /\ nullArg' = FALSE

\* ---- the rebuild-per-intensity view: what each handler does to its own fields

\* (255 + (originalAlpha - 255) * maskOpacity).toInt(); the Float is exact for an
\* opacity in units of 1/Den and never negative, so toInt() is the floor.
BlendedAlpha(originalAlpha, opacity) ==
    (255 * Den + (originalAlpha - 255) * opacity) \div Den

\* The bitmap updateMaskBitmap leaves in maskBitmap when the view is w x h.
updateMaskBitmap(w, h) ==
    IF w <= 0 \/ h <= 0 THEN maskBitmap
    ELSE IF \/ ~colors.some \/ ~locations.some
            \/ Len(colors.v) # Len(locations.v)
            \/ Len(colors.v) = 0
    THEN [null |-> FALSE, kind |-> "white", maskColors |-> <<>>,
          positions |-> <<>>, coords |-> <<0, 0, 0, 0>>,
          key |-> <<colors, locations, direction, w, h>>]
    ELSE [null |-> FALSE, kind |-> "gradient",
          maskColors |-> [i \in 1..Len(colors.v) |->
                             ColorArgb(BlendedAlpha(ColorAlpha(colors.v[i]),
                                                    maskOpacity), 255, 255, 255)],
          positions |-> locations.v,
          coords |-> getGradientCoordinates(direction, w, h),
          key |-> <<colors, locations, direction, w, h>>]

\* setColors, setLocations, setDirection and setMaskOpacity of the rebuild-per-
\* intensity view: each stores its value and sets maskBitmapInvalidated.
RebuildSetProp ==
    /\ maskBitmapInvalidated' = TRUE
    /\ maskDrawn' = Nothing
    /\ UNCHANGED maskBitmap

RebuildOnSizeChanged(w, h) ==
    /\ IF w > 0 /\ h > 0
       THEN /\ maskBitmap' = updateMaskBitmap(w, h)
            /\ maskBitmapInvalidated' = FALSE
       ELSE UNCHANGED <<maskBitmap, maskBitmapInvalidated>>
    /\ maskDrawn' = Nothing

RebuildOnLayout(changed) ==
    /\ maskBitmapInvalidated' = (IF changed THEN TRUE ELSE maskBitmapInvalidated)
    /\ maskDrawn' = Nothing
    /\ UNCHANGED maskBitmap

\* The bitmap is drawn with DST_IN and no colour filter.
RebuildDispatchDraw ==
    LET sized == width > 0 /\ height > 0
        rebuild == sized /\ maskBitmapInvalidated
        bitmap == IF rebuild THEN updateMaskBitmap(width, height) ELSE maskBitmap
    IN /\ maskBitmap' = bitmap
       /\ maskBitmapInvalidated' = (IF sized THEN FALSE ELSE maskBitmapInvalidated)
       /\ maskDrawn' = IF ~sized \/ bitmap = NoBitmap \/ maskOpacity <= 0
                       THEN PassThrough
                       ELSE [mode |-> "masked", layer |-> TRUE, bitmap |-> bitmap,
                             filtered |-> FALSE, alphaRow |-> <<Den, 0>>]

RebuildOnDetachedFromWindow ==
    /\ maskBitmap' = NoBitmap
    /\ maskDrawn' = Nothing
    /\ UNCHANGED maskBitmapInvalidated

AndroidInit ==
    /\ maskBitmap = NoBitmap
    /\ maskBitmapInvalidated = TRUE
    /\ maskDrawn = Nothing
    /\ colors = None
    /\ locations = None
    /\ direction = "top"
    /\ maskOpacity = Den
    /\ baseMaskBitmap = NoBitmap
    /\ baseBitmapInvalidated = TRUE
    /\ width = 0
    /\ height = 0
    /\ layoutPending = FALSE
    /\ dirty = FALSE
    /\ drawn = Nothing
    /\ lastOp = "init"
    /\ rebuilt = FALSE
    /\ clean = FALSE
    /\ scenario = NoScenario
    /\ live = 0
    /\ awaitingFirstDraw = FALSE
    /\ opacityArg = None
    /\ recycledHeld = FALSE
    /\ nullArg = FALSE

\* Both views receive each prop update, layout pass, draw and detach.
AndroidNext ==
    \/ \E c \in AndroidColorArrays : setColors(c) /\ RebuildSetProp
    \/ \E l \in AndroidLocationArrays : setLocations(l) /\ RebuildSetProp
    \/ \E d \in Directions : setDirection(d) /\ RebuildSetProp
    \/ \E o \in Intensities : setMaskOpacity(o) /\ RebuildSetProp
    \/ \E s \in Sizes : onSizeChanged(s[1], s[2]) /\ RebuildOnSizeChanged(s[1], s[2])
    \/ \E changed \in BOOLEAN : onLayout(changed) /\ RebuildOnLayout(changed)
    \/ dispatchDraw /\ RebuildDispatchDraw
    \/ onDetachedFromWindow /\ RebuildOnDetachedFromWindow

\* ------------------------------------------------------------ web (CSS mask)

(***************************************************************************)
(* A JS integer n in [-2^31, 2^32) is the pair <<hi, lo>> with             *)
(* n = hi * 65536 + lo and lo in 0..65535; a colour prop is such a number  *)
(* or null.                                                                *)
(***************************************************************************)
NullColor == [null |-> TRUE, hi |-> 0, lo |-> 0]
Num(hi, lo) == [null |-> FALSE, hi |-> hi, lo |-> lo]

\* x >>> 0
ToUint32(x) == Num(x.hi % 65536, x.lo)
\* ToInt32(x), the operand of >> and |, as an integer
ToInt32(x) == (((x.hi + 32768) % 65536) - 32768) * 65536 + x.lo
\* The int32 v as a JS number
NumOfInt32(v) == Num(v \div 65536, v % 65536)
\* (x >> n) & 0xff
ShrAnd255(x, n) == (ToInt32(x) \div 2 ^ n) % 256
\* v << 24 for v in 0..255
Shl24(v) == (IF v >= 128 THEN v - 256 ELSE v) * 16777216

\* A colorToRgba that decodes null as opaque black.
colorToRgbaOpaqueNull(color) ==
    IF color.null THEN <<0, 0, 0, 255>>
    ELSE LET intValue == ToUint32(color)
         IN <<ShrAnd255(intValue, 16), ShrAnd255(intValue, 8), ShrAnd255(intValue, 0),
              ShrAnd255(intValue, 24)>>

\* rgba(r, g, b, a) as <<r, g, b, A>> with a = A / 255
colorToRgba(color) ==
    IF color.null THEN <<0, 0, 0, 0>>
    ELSE LET intValue == ToUint32(color)
         IN <<ShrAnd255(intValue, 16), ShrAnd255(intValue, 8), ShrAnd255(intValue, 0),
              ShrAnd255(intValue, 24)>>

getGradientDirection(dir) ==
    CASE dir = "top" -> "to bottom"
      [] dir = "bottom" -> "to top"
      [] dir = "left" -> "to right"
      [] dir = "right" -> "to left"
      [] OTHER -> "to bottom"

\* A stop position in percent as the fraction <<num, den>>; den = 0 is NaN.
StopLocation(colorList, locationList, i) ==
    IF i <= Len(locationList)
    THEN <<locationList[i] * 100, Den>>
    ELSE <<(i - 1) * 100, Len(colorList) - 1>>

\* linear-gradient(<direction>, <rgba> <location>%, ...)
buildGradientString(colorList, locationList, dir) ==
    [direction |-> getGradientDirection(dir),
     stops |-> [i \in 1..Len(colorList) |->
                  [rgba |-> colorToRgba(colorList[i]),
                   location |-> StopLocation(colorList, locationList, i)]]]

\* The blend without its first term: Math.round((1 - a) * (1 - maskOpacity) * 255).
AdjustedAlphaWithoutBase(A, opacity) ==
    LET d == FxDivSmall(FxFromInt(A), 255)
        a == FxRound(d.q, d.inexact)
        oneMinusA == FxRound(FxSub(FxFromInt(1), a), FALSE)
        p == FxDivSmall(FxMulSmall(oneMinusA, Den - opacity), Den)
        product == FxRound(p.q, p.inexact)
    IN MathRound(FxRound(FxMulSmall(product, 255), FALSE))

\* Math.round((a + (1 - a) * (1 - maskOpacity)) * 255) with a = A / 255, in doubles
AdjustedAlpha(A, opacity) ==
    LET d == FxDivSmall(FxFromInt(A), 255)
        a == FxRound(d.q, d.inexact)
        oneMinusA == FxRound(FxSub(FxFromInt(1), a), FALSE)
        p == FxDivSmall(FxMulSmall(oneMinusA, Den - opacity), Den)
        product == FxRound(p.q, p.inexact)
        adjustedAlpha == FxRound(FxAdd(a, product), FALSE)
    IN MathRound(FxRound(FxMulSmall(adjustedAlpha, 255), FALSE))

AdjustColor(color, opacity) ==
    IF color.null THEN color
    ELSE LET intValue == ToUint32(color)
             r == ShrAnd255(intValue, 16)
             g == ShrAnd255(intValue, 8)
             b == ShrAnd255(intValue, 0)
         IN ToUint32(NumOfInt32(Shl24(AdjustedAlpha(ShrAnd255(intValue, 24), opacity))
                               + r * 65536 + g * 256 + b))

\* An adjustColorsForOpacity with the two early returns exchanged.
adjustColorsForOpacitySwapped(colorList, opacity) ==
    IF opacity <= 0 THEN colorList
    ELSE IF opacity >= Den THEN [i \in 1..Len(colorList) |-> Num(65280, 0)]
    ELSE [i \in 1..Len(colorList) |-> AdjustColor(colorList[i], opacity)]

adjustColorsForOpacity(colorList, opacity) ==
    IF opacity >= Den THEN colorList
    ELSE IF opacity <= 0 THEN [i \in 1..Len(colorList) |-> Num(65280, 0)]
    ELSE [i \in 1..Len(colorList) |-> AdjustColor(colorList[i], opacity)]

EmptyStyle == [mask |-> FALSE, maskImage |-> [direction |-> "", stops |-> <<>>]]

\* The direction default of the component: direction = 'top' when the prop is absent.
DirectionOrDefault(dir) == IF dir = "undefined" THEN "top" ELSE dir

\* The useMemo body of GradientMaskView (web).
MaskStyleOf(p) ==
    IF p.maskOpacity <= 0 THEN EmptyStyle
    ELSE [mask |-> TRUE,
          maskImage |-> buildGradientString(
                            adjustColorsForOpacity(p.colors, p.maskOpacity),
                            p.locations, DirectionOrDefault(p.direction))]

WebColors == { NullColor, Num(0, 0), Num(65280, 0), Num(65535, 65535), Num(3090, 13398) }
WebColorLists ==
    { <<c>> : c \in WebColors }
        \cup { <<c, d>> : c \in { NullColor, Num(0, 0), Num(3090, 13398) },
                          d \in { Num(65280, 0), Num(65535, 65535) } }
WebLocationLists == { <<>>, <<0>>, <<0, Den>> }
WebDirections == { "undefined", "top", "bottom", "left", "right" }

\* React.useMemo(..., [colors, locations, direction, maskOpacity]): the body runs
\* again when one of the four differs from the render before.
MemoDepsChanged(p) ==
    \/ p.colors # props.colors
    \/ p.locations # props.locations
    \/ p.direction # props.direction
    \/ p.maskOpacity # props.maskOpacity

\* A render of GradientMaskView (web) with props p.
GradientMaskViewWeb(p) ==
    /\ WebFrame
    /\ props' = p
    /\ maskStyle' = (IF MemoDepsChanged(p) THEN MaskStyleOf(p) ELSE maskStyle)
    /\ gradientStringBuilt' = (MemoDepsChanged(p) /\ ~(p.maskOpacity <= 0))

WebInit ==
    /\ props = [colors |-> <<Num(0, 0), Num(65280, 0)>>, locations |-> <<0, Den>>,
                direction |-> "undefined", maskOpacity |-> Den]
    /\ maskStyle = MaskStyleOf(props)
    /\ gradientStringBuilt = ~(props.maskOpacity <= 0)

WebNext ==
    \/ \E c \in WebColorLists : GradientMaskViewWeb([props EXCEPT !.colors = c])
    \/ \E l \in WebLocationLists : GradientMaskViewWeb([props EXCEPT !.locations = l])
    \/ \E d \in WebDirections : GradientMaskViewWeb([props EXCEPT !.direction = d])
    \/ \E o \in Intensities : GradientMaskViewWeb([props EXCEPT !.maskOpacity = o])

\* --------------------------------------- web AnimatedGradientMaskView

\* The posted calls the model keeps in flight at most.
MaxPosted == 4

\* The values an animation writes to the shared value.
SharedValues == 0..Den

\* The useMemo body of AnimatedGradientMaskView with the state value o; the colors,
\* locations and direction are those of props.
AnimatedMaskStyleOf(o) ==
    IF o <= 0 THEN [EmptyStyle EXCEPT !.mask = FALSE] @@ [transition |-> FALSE]
    ELSE [mask |-> TRUE,
          maskImage |-> buildGradientString(adjustColorsForOpacity(props.colors, o),
                                            props.locations,
                                            DirectionOrDefault(props.direction)),
          transition |-> TRUE]

\* A reaction that posts a value only when no posted call is waiting.
ReactionDroppingWhenBusy(queue, value) ==
    IF queue = <<>> THEN <<value>> ELSE queue

\* The react callback of useAnimatedReaction: runOnJS(setCurrentOpacity)(value) puts
\* the call behind those posted before.
Reaction(queue, value) == Append(queue, value)

\* An animation or a gesture assigns maskOpacity.value; the reaction runs.
writeSharedValue(v) ==
    /\ AnimatedFrame
    /\ v # sharedValue
    /\ Len(posted) < MaxPosted
    /\ sharedValue' = v
    /\ posted' = Reaction(posted, v)
    /\ UNCHANGED <<currentOpacity, animatedMaskStyle>>

\* The JS side runs the oldest posted setCurrentOpacity(value); the component renders
\* again with that state.
runPosted ==
    /\ AnimatedFrame
    /\ posted # <<>>
    /\ currentOpacity' = Head(posted)
    /\ posted' = Tail(posted)
    /\ animatedMaskStyle' = AnimatedMaskStyleOf(Head(posted))
    /\ UNCHANGED sharedValue

\* The mount: useState(maskOpacity.value); the reaction, once registered, may run
\* with the value it finds.
AnimatedInit ==
    /\ sharedValue \in SharedValues
    /\ currentOpacity = sharedValue
    /\ posted \in {<<>>, <<sharedValue>>}
    /\ animatedMaskStyle = AnimatedMaskStyleOf(currentOpacity)

\* No AnimatedGradientMaskView is mounted.
AnimatedIdle ==
    /\ sharedValue = Den
    /\ currentOpacity = Den
    /\ posted = <<>>
    /\ animatedMaskStyle = AnimatedMaskStyleOf(Den)

AnimatedNext ==
    \/ \E v \in SharedValues : writeSharedValue(v)
    \/ runPosted

\* ------------------------------------------------------------ demo screen

PADDING_BOTTOM == 30
BOTTOM_EPS_SHOW == 2
BOTTOM_EPS_HIDE == 6

\* Values of distanceFromBottom on both sides of each threshold of handleScroll.
Distances ==
    { 0,
      PADDING_BOTTOM + BOTTOM_EPS_SHOW, PADDING_BOTTOM + BOTTOM_EPS_SHOW + 1,
      PADDING_BOTTOM + BOTTOM_EPS_HIDE, PADDING_BOTTOM + BOTTOM_EPS_HIDE + 1,
      PADDING_BOTTOM + BOTTOM_EPS_HIDE + 4, PADDING_BOTTOM + BOTTOM_EPS_HIDE + 5 }

NoAnimation == [running |-> FALSE, to |-> 0]

\* maskOpacity.value = withTiming(target, ...): the animation runs from the present
\* value to the target.
withTiming(target) == [running |-> TRUE, to |-> target]

\* A bottom test with the one threshold PADDING_BOTTOM + BOTTOM_EPS_SHOW.
NextIsAtBottomOneThreshold(distanceFromBottom, previous) ==
    distanceFromBottom <= PADDING_BOTTOM + BOTTOM_EPS_SHOW

\* nextIsAtBottom of handleScroll
NextIsAtBottom(distanceFromBottom, previous) ==
    IF distanceFromBottom <= PADDING_BOTTOM + BOTTOM_EPS_SHOW THEN TRUE
    ELSE IF distanceFromBottom > PADDING_BOTTOM + BOTTOM_EPS_HIDE THEN FALSE
    ELSE previous

\* A handleScroll without the branch that clears the mask at once.
ClearsAtOnceNever(distanceFromBottom, value) == FALSE

\* The test of the branch that clears the mask at once.
ClearsAtOnce(distanceFromBottom, value) ==
    distanceFromBottom > PADDING_BOTTOM + BOTTOM_EPS_HIDE + 4 /\ value > 0

\* A handleScroll that animates to 1 both when the bottom is reached and when it is
\* left.
TimingTargetAlwaysShown(nextIsAtBottom) == Den

\* The target of the animation handleScroll starts: 1 to show, 0 to hide.
TimingTarget(nextIsAtBottom) == IF nextIsAtBottom THEN Den ELSE 0

handleScroll(distanceFromBottom) ==
    /\ ScreenFrame
    /\ IF ~autoSwitch
       THEN /\ UNCHANGED <<screenMaskOpacity, animation, isAtBottomRef, isAtBottom>>
            /\ event' = [op |-> "handleScroll", distance |-> distanceFromBottom,
                         started |-> -1, cancelled |-> FALSE]
       ELSE LET nextIsAtBottom == NextIsAtBottom(distanceFromBottom, isAtBottomRef)
            IN IF ClearsAtOnce(distanceFromBottom, screenMaskOpacity)
               THEN /\ animation' = NoAnimation
                    /\ screenMaskOpacity' = 0
                    /\ isAtBottomRef' = FALSE
                    /\ isAtBottom' = FALSE
                    /\ event' = [op |-> "handleScroll",
                                 distance |-> distanceFromBottom, started |-> -1,
                                 cancelled |-> TRUE]
               ELSE IF nextIsAtBottom # isAtBottomRef
               THEN /\ isAtBottomRef' = nextIsAtBottom
                    /\ isAtBottom' = nextIsAtBottom
                    /\ animation' = withTiming(TimingTarget(nextIsAtBottom))
                    /\ event' = [op |-> "handleScroll",
                                 distance |-> distanceFromBottom,
                                 started |-> TimingTarget(nextIsAtBottom),
                                 cancelled |-> TRUE]
                    /\ UNCHANGED screenMaskOpacity
               ELSE /\ UNCHANGED <<screenMaskOpacity, animation, isAtBottomRef,
                                   isAtBottom>>
                    /\ event' = [op |-> "handleScroll",
                                 distance |-> distanceFromBottom, started |-> -1,
                                 cancelled |-> FALSE]
    /\ UNCHANGED <<autoSwitch, isStressTest, stressTestUsed>>

\* A frame of the running animation: the value moves towards the target, and the
\* animation ends on the frame after the value has reached it.
animationFrame ==
    /\ ScreenFrame
    /\ animation.running
    /\ IF screenMaskOpacity = animation.to
       THEN animation' = NoAnimation /\ UNCHANGED screenMaskOpacity
       ELSE /\ screenMaskOpacity' = IF screenMaskOpacity < animation.to
                                    THEN screenMaskOpacity + 1
                                    ELSE screenMaskOpacity - 1
            /\ UNCHANGED animation
    /\ event' = [op |-> "animationFrame", distance |-> 0, started |-> -1,
                 cancelled |-> FALSE]
    /\ UNCHANGED <<autoSwitch, isStressTest, isAtBottomRef, isAtBottom,
                   stressTestUsed>>

toggleAutoSwitch ==
    /\ ScreenFrame
    /\ autoSwitch' = ~autoSwitch
    /\ event' = [op |-> "toggleAutoSwitch", distance |-> 0, started |-> -1,
                 cancelled |-> FALSE]
    /\ UNCHANGED <<isStressTest, screenMaskOpacity, animation, isAtBottomRef,
                   isAtBottom, stressTestUsed>>

\* toggleStressTest and the effect on isStressTest: switching on sets the interval,
\* switching off clears it and animates maskOpacity to 0.
toggleStressTest ==
    /\ ScreenFrame
    /\ isStressTest' = ~isStressTest
    /\ IF isStressTest
       THEN /\ animation' = withTiming(0)
            /\ event' = [op |-> "toggleStressTest", distance |-> 0, started |-> 0,
                         cancelled |-> FALSE]
       ELSE /\ UNCHANGED animation
            /\ event' = [op |-> "toggleStressTest", distance |-> 0, started |-> -1,
                         cancelled |-> FALSE]
    /\ stressTestUsed' = TRUE
    /\ UNCHANGED <<autoSwitch, screenMaskOpacity, isAtBottomRef, isAtBottom>>

\* The interval callback of the stress test.
stressTestInterval ==
    /\ ScreenFrame
    /\ isStressTest
    /\ LET target == IF 2 * screenMaskOpacity > Den THEN 0 ELSE Den
       IN /\ animation' = withTiming(target)
          /\ event' = [op |-> "stressTestInterval", distance |-> 0,
                       started |-> target, cancelled |-> FALSE]
    /\ UNCHANGED <<autoSwitch, isStressTest, screenMaskOpacity, isAtBottomRef,
                   isAtBottom, stressTestUsed>>

ScreenInit ==
    /\ autoSwitch = TRUE
    /\ isStressTest = FALSE
    /\ screenMaskOpacity = 0
    /\ animation = NoAnimation
    /\ isAtBottomRef = FALSE
    /\ isAtBottom = FALSE
    /\ event = [op |-> "init", distance |-> 0, started |-> -1, cancelled |-> FALSE]
    /\ stressTestUsed = FALSE

ScreenNext ==
    \/ \E d \in Distances : handleScroll(d)
    \/ animationFrame
    \/ toggleAutoSwitch
    \/ toggleStressTest
    \/ stressTestInterval

\* ------------------------------------------------------- iOS (layer mask)

\* UIColor.clear, UIColor.black
ClearColor == <<0, 0, 0, 0>>
BlackColor == <<0, 0, 0, 255>>

\* The colour of a prop value: UInt32(bitPattern: Int32(truncatingIfNeeded: v)), then
\* red, green, blue and alpha by shift and mask.
CGColorOf(colorValue) ==
    LET intValue == ToUint32(colorValue)
    IN <<intValue.hi % 256, intValue.lo \div 256, intValue.lo % 256,
         (intValue.hi \div 256) % 256>>

\* startPoint and endPoint in units of 1/2 of the unit square: <<sx, sy, ex, ey>>
DirectionPoints(dir) ==
    CASE dir = "top" -> <<1, 0, 1, 2>>
      [] dir = "bottom" -> <<1, 2, 1, 0>>
      [] dir = "left" -> <<0, 1, 2, 1>>
      [] dir = "right" -> <<2, 1, 0, 1>>
      [] OTHER -> <<1, 0, 1, 2>>

\* updateGradientDirection, on the gradient layer g
updateGradientDirection(g, dir) == [g EXCEPT !.points = DirectionPoints(dir)]

\* updateGradientMask: the gradient layer it leaves, given the stored properties
updateGradientMask(g, cs, ls, dir) ==
    updateGradientDirection(
        [g EXCEPT !.frame = bounds, !.colors = cs, !.locations = ls], dir)

IosColorArrays == { None, Some(<<Num(0, 0), Num(65280, 0)>>), Some(<<Num(32768, 0)>>) }
IosLocationArrays == { None, Some(<<0, Den>>), Some(<<0>>) }
IosDirections == { "top", "left", "sideways" }
IosBounds == { <<0, 0>>, <<1, 1>>, <<2, 1>> }

iosSetColors(colorArray) ==
    /\ IosFrame
    /\ colorArray.some
    /\ _colors' = [i \in 1..Len(colorArray.v) |-> CGColorOf(colorArray.v[i])]
    /\ gradientMaskLayer' =
           updateGradientMask(gradientMaskLayer, _colors', _locations, _direction)
    /\ solidMaskLayer' = [solidMaskLayer EXCEPT !.frame = bounds]
    /\ layerMask' = TRUE
    /\ UNCHANGED <<_locations, _direction, _maskOpacity, bounds>>

iosSetLocations(locationArray) ==
    /\ IosFrame
    /\ locationArray.some
    /\ _locations' = locationArray.v
    /\ gradientMaskLayer' =
           updateGradientMask(gradientMaskLayer, _colors, _locations', _direction)
    /\ solidMaskLayer' = [solidMaskLayer EXCEPT !.frame = bounds]
    /\ layerMask' = TRUE
    /\ UNCHANGED <<_colors, _direction, _maskOpacity, bounds>>

iosSetDirection(dir) ==
    /\ IosFrame
    /\ _direction' = dir
    /\ gradientMaskLayer' =
           updateGradientMask(gradientMaskLayer, _colors, _locations, dir)
    /\ solidMaskLayer' = [solidMaskLayer EXCEPT !.frame = bounds]
    /\ layerMask' = TRUE
    /\ UNCHANGED <<_colors, _locations, _maskOpacity, bounds>>

\* updateMaskOpacity: solidMaskLayer.opacity = Float(1.0 - _maskOpacity)
updateMaskOpacity(layer, opacity) == [layer EXCEPT !.opacity = Den - opacity]

iosSetMaskOpacity(opacity) ==
    /\ IosFrame
    /\ _maskOpacity' = opacity
    /\ solidMaskLayer' = updateMaskOpacity(solidMaskLayer, opacity)
    /\ UNCHANGED <<_colors, _locations, _direction, gradientMaskLayer, layerMask,
                   bounds>>

\* layoutSubviews after the layout pass gave the view the bounds b
layoutSubviews(b) ==
    /\ IosFrame
    /\ bounds' = b
    /\ gradientMaskLayer' =
           [updateGradientMask(gradientMaskLayer, _colors, _locations, _direction)
               EXCEPT !.frame = b]
    /\ solidMaskLayer' = [solidMaskLayer EXCEPT !.frame = b]
    /\ layerMask' = TRUE
    /\ UNCHANGED <<_colors, _locations, _direction, _maskOpacity>>

IosInit ==
    /\ _colors = <<ClearColor, BlackColor>>
    /\ _locations = <<0, Den>>
    /\ _direction = "top"
    /\ _maskOpacity = Den
    /\ gradientMaskLayer = [colors |-> <<ClearColor, BlackColor>>,
                            locations |-> <<0, Den>>,
                            points |-> DirectionPoints("top"),
                            frame |-> <<0, 0>>]
    /\ solidMaskLayer = [opacity |-> 0, frame |-> <<0, 0>>]
    /\ layerMask = FALSE
    /\ bounds = <<0, 0>>

IosNext ==
    \/ \E c \in IosColorArrays : iosSetColors(c)
    \/ \E l \in IosLocationArrays : iosSetLocations(l)
    \/ \E d \in IosDirections : iosSetDirection(d)
    \/ \E o \in Intensities : iosSetMaskOpacity(o)
    \/ \E b \in IosBounds : layoutSubviews(b)

\* ------------------------------------------- the helper functions on their own
MaxDim == 3

\* Surface sizes handed to the direction resolvers.
ResolverSizes == { <<w, h>> : w, h \in 0..MaxDim } \cup { <<10, 20>> }
\* "undefined" is the absent prop.
ResolverDirections == { "undefined", "top", "bottom", "left", "right", "sideways" }

\* Prop("direction"): view.setDirection(direction ?: "top")
AndroidDirectionProp(dir) == IF dir = "undefined" THEN "top" ELSE dir

NoCall == [fn |-> "none"]
NoResult == [fn |-> "none"]

\* The three direction resolvers applied to one direction and one surface size.
resolveDirection ==
    /\ PureFrame
    /\ call.fn = "resolve" /\ result.fn = "none"
    /\ result' =
           [fn |-> "resolve",
            android |-> getGradientCoordinates(AndroidDirectionProp(call.dir),
                                               call.w, call.h),
            ios |-> updateGradientDirection(gradientMaskLayer, call.dir).points,
            web |-> getGradientDirection(DirectionOrDefault(call.dir))]
    /\ UNCHANGED call

\* 32-bit colours: the halves <<hi, lo>> of unsigned and of negative numbers.
RoundTripColors ==
    { Num(hi, lo) : hi \in { 0, 1, 255, 256, 3090, 32767, 32768, 65280, 65535,
                             -1, -256, -32768 },
                    lo \in { 0, 1, 255, 256, 13398, 65535 } }

\* A pack that leaves out the final >>> 0.
PackArgbSigned(a, r, g, b) == NumOfInt32(Shl24(a) + r * 65536 + g * 256 + b)

\* ((a << 24) | (r << 16) | (g << 8) | b) >>> 0 for bytes a, r, g, b
PackArgb(a, r, g, b) == ToUint32(NumOfInt32(Shl24(a) + r * 65536 + g * 256 + b))

\* The channels of call.x by the shifts and masks of the web code, packed again.
roundTrip ==
    /\ PureFrame
    /\ call.fn = "roundTrip" /\ result.fn = "none"
    /\ LET intValue == ToUint32(call.x)
           a == ShrAnd255(intValue, 24)
           r == ShrAnd255(intValue, 16)
           g == ShrAnd255(intValue, 8)
           b == ShrAnd255(intValue, 0)
       IN result' = [fn |-> "roundTrip", argb |-> <<a, r, g, b>>,
                     packed |-> PackArgb(a, r, g, b)]
    /\ UNCHANGED call

\* The colours 0xAA123456 for every alpha byte AA.
BlendColors == { Num(A * 256 + 18, 13398) : A \in 0..255 }

\* adjustColorsForOpacity applied to [call.color] at every intensity; the alpha byte
\* of the colour it returns, per intensity.
blendOverIntensities ==
    /\ PureFrame
    /\ call.fn = "blend" /\ result.fn = "none"
    /\ result' =
           [fn |-> "blend",
            alphas |-> [i \in Intensities |->
                          colorToRgba(adjustColorsForOpacity(<<call.color>>, i)[1])[4]]]
    /\ UNCHANGED call

\* The mask alpha of the iOS view where the gradient has alpha A / 255: the solid
\* black sublayer of opacity 1 - _maskOpacity lies over the gradient sublayer, which
\* leaves (1 - _maskOpacity) + (A / 255) * _maskOpacity; on the scale 0..255, in
\* units of 1/Den.
OverlayAlpha(A, opacity) == 255 * (Den - opacity) + A * opacity

\* The mask alpha each backend gives a stop of base alpha call.alpha at the
\* intensity call.opacity: web and rebuild are bytes, cached and ios are on the same
\* scale in units of 1/Den.
effectiveAlpha ==
    /\ PureFrame
    /\ call.fn = "effective" /\ result.fn = "none"
    /\ LET color == Num(call.alpha * 256 + 18, 13398)
           row == AlphaRow(call.opacity)
       IN result' =
              [fn |-> "effective",
               web |-> colorToRgba(
                           adjustColorsForOpacity(<<color>>, call.opacity)[1])[4],
               rebuild |-> BlendedAlpha(call.alpha, call.opacity),
               cached |-> call.alpha * row[1] + row[2],
               ios |-> OverlayAlpha(call.alpha, call.opacity)]
    /\ UNCHANGED call

\* One helper function and its arguments.
PureInit ==
    /\ \/ \E d \in ResolverDirections, s \in ResolverSizes :
              call = [fn |-> "resolve", dir |-> d, w |-> s[1], h |-> s[2]]
       \/ \E x \in RoundTripColors : call = [fn |-> "roundTrip", x |-> x]
       \/ \E c \in BlendColors : call = [fn |-> "blend", color |-> c]
       \/ \E A \in 0..255, o \in 0..Den :
              call = [fn |-> "effective", alpha |-> A, opacity |-> o]
    /\ result = NoResult

PureNext ==
    \/ resolveDirection
    \/ roundTrip
    \/ blendOverIntensities
    \/ effectiveAlpha

\* ------------------------------------------------------------- the program

Init ==
    /\ platform \in {"android", "web", "ios"}
    /\ AndroidInit
    /\ WebInit
    /\ IosInit
    /\ call = NoCall
    /\ result = NoResult
    /\ AnimatedIdle
    /\ ScreenInit

Next == AndroidNext \/ WebNext \/ IosNext

Spec == Init /\ [][Next]_vars

\* No view is mounted; one helper function is about to be applied to its arguments.
PureSpecInit ==
    /\ platform = "functions"
    /\ AndroidInit
    /\ WebInit
    /\ IosInit
    /\ PureInit
    /\ AnimatedIdle
    /\ ScreenInit

\* The helper functions applied to inputs drawn from bounded sets.
PureSpec == PureSpecInit /\ [][PureNext]_vars

\* The AnimatedGradientMaskView mounted on the web with the default gradient props.
AnimatedSpecInit ==
    /\ platform = "webAnimated"
    /\ AndroidInit
    /\ WebInit
    /\ IosInit
    /\ call = NoCall
    /\ result = NoResult
    /\ AnimatedInit
    /\ ScreenInit

\* A step of runPosted, told by what it does to the posted calls.
RunPostedStep ==
    /\ posted # <<>>
    /\ posted' = Tail(posted)
    /\ UNCHANGED sharedValue

\* The JS event loop runs every posted call: a call that is waiting is run.
AnimatedSpec ==
    AnimatedSpecInit /\ [][AnimatedNext]_vars /\ WF_posted(RunPostedStep)

\* The demo screen, mounted.
ScreenSpecInit ==
    /\ platform = "screen"
    /\ AndroidInit
    /\ WebInit
    /\ IosInit
    /\ call = NoCall
    /\ result = NoResult
    /\ AnimatedIdle
    /\ ScreenInit

ScreenSpec == ScreenSpecInit /\ [][ScreenNext]_vars

\* ================================================================ properties

\* C1: on the cached Android view setMaskOpacity leaves baseBitmapInvalidated,
\* baseMaskBitmap, colors, locations and direction unchanged and runs no rebuild; a
\* draw that starts with the flag false runs no rebuild and keeps the bitmap; so from
\* an intensity update made with the flag false on, through draws and further
\* intensity updates, updateBaseMaskBitmap is never executed.
C1_IntensityLeavesCache ==
    [][ /\ lastOp' = "setMaskOpacity" =>
              /\ UNCHANGED <<baseBitmapInvalidated, baseMaskBitmap, colors, locations,
                             direction>>
              /\ ~rebuilt'
        /\ (lastOp' = "dispatchDraw" /\ ~baseBitmapInvalidated) =>
              (~rebuilt' /\ baseMaskBitmap' = baseMaskBitmap)
        /\ scenario'.kind = "maskOpacity" => scenario'.n = 0 ]_vars

\* An intensity was changed to a value inside (0, 1) with the flag false and the view
\* then drew the cached bitmap through the colour filter, without a rebuild.
C1_Witness ==
    /\ scenario = [kind |-> "maskOpacity", phase |-> "drawn", n |-> 0]
    /\ lastOp = "dispatchDraw"
    /\ ~rebuilt
    /\ drawn.mode = "masked"
    /\ drawn.filtered
    /\ drawn.bitmap.kind = "gradient"

\* C2: on the cached Android view, after a rebuild, as long as only draws and updates
\* of colors, locations and direction with values equal to the stored ones follow, no
\* draw rebuilds the base bitmap.
C2_EqualValuesNoRebuild ==
    [][ (clean /\ Built /\ lastOp' = "dispatchDraw") => ~rebuilt' ]_vars

\* C3: on the cached Android view with a built bitmap, after a change of exactly one
\* of colors, locations, direction, width and height (a size change arriving as
\* onSizeChanged then onLayout(true)) and one draw, updateBaseMaskBitmap has been
\* executed exactly once.
C3_OneChangeOneRebuild ==
    (/\ scenario.phase = "drawn"
     /\ scenario.kind \in {"colors", "locations", "direction", "width", "height"}
     /\ width > 0 /\ height > 0)
        => scenario.n = 1

\* C4: on the cached Android view every draw that applies a mask applies a bitmap
\* built from exactly the current colors, locations, direction, width and height.
C4_NoStaleBitmap ==
    drawn.mode = "masked" =>
        /\ drawn.bitmap = baseMaskBitmap
        /\ drawn.bitmap.key = CurrentKey

\* A masked draw of a gradient right after a change of the direction.
C4_Witness ==
    /\ scenario = [kind |-> "direction", phase |-> "drawn", n |-> 1]
    /\ drawn.mode = "masked"
    /\ drawn.bitmap.kind = "gradient"
    /\ drawn.bitmap.coords = getGradientCoordinates("left", width, height)
    /\ direction = "left"

\* C5: at an intensity <= 0 the mask is skipped: the web view renders the empty mask
\* style, the Android draw is the plain draw of the children (no offscreen layer, no
\* bitmap, no filter), and the opacity of the iOS solid overlay is at least 1.
C5_ZeroIntensitySkipsMask ==
    /\ props.maskOpacity <= 0 => maskStyle = EmptyStyle
    /\ (lastOp = "dispatchDraw" /\ maskOpacity <= 0) => drawn = PassThrough
    /\ _maskOpacity <= 0 => solidMaskLayer.opacity >= Den

\* The Android view has a gradient bitmap and a positive size and drew at intensity 0.
C5_Witness ==
    /\ lastOp = "dispatchDraw"
    /\ maskOpacity = 0
    /\ width > 0 /\ height > 0
    /\ Built /\ baseMaskBitmap.kind = "gradient"
    /\ drawn = PassThrough

\* C6: at intensity 1 the web view renders the gradient of the authored colours
\* (adjustColorsForOpacity returns them unchanged) and the Android draw applies the
\* cached bitmap without colour filter.
C6_FullIntensityIsBase ==
    /\ props.maskOpacity = Den =>
          /\ adjustColorsForOpacity(props.colors, props.maskOpacity) = props.colors
          /\ maskStyle =
                 [mask |-> TRUE,
                  maskImage |-> buildGradientString(props.colors, props.locations,
                                                    DirectionOrDefault(props.direction))]
    /\ (drawn.mode = "masked" /\ maskOpacity = Den) =>
          /\ ~drawn.filtered
          /\ drawn.alphaRow = <<Den, 0>>
          /\ drawn.bitmap = baseMaskBitmap

\* The web view rendered a translucent colour at intensity 1 with its alpha kept.
C6_Witness ==
    /\ platform = "web"
    /\ props.maskOpacity = Den
    /\ props.colors = <<Num(3090, 13398)>>
    /\ maskStyle.mask
    /\ maskStyle.maskImage.stops[1].rgba = <<18, 52, 86, 12>>

\* C7: at an intensity i with 0 < i < 1 the web view renders every non-null stop
\* with alpha round(a * i + 255 * (1 - i)), inside 0..255, with its R, G and B and
\* the number and order of the stops unchanged; the Android colour filter has the
\* alpha row scale i, translate 255 * (1 - i).
C7_BlendedAlpha ==
    /\ (maskStyle.mask /\ props.maskOpacity > 0 /\ props.maskOpacity < Den) =>
          /\ Len(maskStyle.maskImage.stops) = Len(props.colors)
          /\ \A i \in 1..Len(props.colors) :
                ~props.colors[i].null =>
                    LET RoundDiv(n, d) == (2 * n + d) \div (2 * d)
                        base == colorToRgba(props.colors[i])
                        out == maskStyle.maskImage.stops[i].rgba
                        m == props.maskOpacity
                    IN /\ out[4] = RoundDiv(base[4] * m + 255 * (Den - m), Den)
                       /\ out[4] \in 0..255
                       /\ <<out[1], out[2], out[3]>> = <<base[1], base[2], base[3]>>
    /\ (drawn.mode = "masked" /\ maskOpacity < Den) =>
          /\ drawn.filtered
          /\ drawn.alphaRow = <<maskOpacity, 255 * (Den - maskOpacity)>>

\* C8: the intensity is clamped to [0, 1] on every backend: the stored and applied
\* values lie in [0, 1], and a value outside renders like the nearest bound.
C8_IntensityClamped ==
    /\ maskOpacity \in 0..Den
    /\ maskStyle = MaskStyleOf([props EXCEPT !.maskOpacity = coerceIn(@, 0, Den)])
    /\ _maskOpacity \in 0..Den
    /\ solidMaskLayer.opacity \in 0..Den

\* C9: with fewer locations than colours the gradient is still built, every stop i
\* (from 0) without a location at i / (n - 1): the web view renders such stops there,
\* and the Android base bitmap is the gradient and not the plain white bitmap.
C9_ShortLocations ==
    /\ (maskStyle.mask /\ Len(props.colors) >= 2) =>
          \A i \in 1..Len(props.colors) :
              i > Len(props.locations) =>
                  maskStyle.maskImage.stops[i].location
                      = <<(i - 1) * 100, Len(props.colors) - 1>>
    /\ (/\ Built
        /\ baseMaskBitmap.key[1].some /\ baseMaskBitmap.key[2].some
        /\ Len(baseMaskBitmap.key[2].v) < Len(baseMaskBitmap.key[1].v))
          => baseMaskBitmap.kind = "gradient"

\* C10: the web view renders a null colour stop as rgba(0, 0, 0, 0).
C10_NullIsTransparentBlack ==
    maskStyle.mask =>
        \A i \in 1..Len(props.colors) :
            props.colors[i].null =>
                maskStyle.maskImage.stops[i].rgba = <<0, 0, 0, 0>>

\* The web view rendered colors = [null, 0xFFFFFFFF].
C10_Witness ==
    /\ props.colors = <<NullColor, Num(65535, 65535)>>
    /\ maskStyle.mask
    /\ maskStyle.maskImage.stops[1].rgba = <<0, 0, 0, 0>>
    /\ maskStyle.maskImage.stops[2].rgba = <<255, 255, 255, 255>>

\* C11 (as stated): every backend resolves top to (w/2, 0) -> (w/2, h), bottom to
\* (w/2, h) -> (w/2, 0), left to (0, h/2) -> (w, h/2), right to (w, h/2) -> (0, h/2)
\* and any other or absent direction like top: Android in pixels, iOS in the unit
\* square, the web as the CSS keyword of that axis.  Coordinates are doubled.
C11_ResolverAsStated ==
    result.fn = "resolve" =>
        LET Resolve2(d, w, h) ==
                CASE d = "bottom" -> <<w, 2 * h, w, 0>>
                  [] d = "left" -> <<0, h, 2 * w, h>>
                  [] d = "right" -> <<2 * w, h, 0, h>>
                  [] OTHER -> <<w, 0, w, 2 * h>>
            r == Resolve2(call.dir, call.w, call.h)
            Sign(x) == IF x > 0 THEN 1 ELSE IF x < 0 THEN -1 ELSE 0
            Keyword(dx, dy) ==
                CASE dy > 0 -> "to bottom" [] dy < 0 -> "to top"
                  [] dx > 0 -> "to right" [] OTHER -> "to left"
            u == Resolve2(call.dir, 1, 1)
        IN /\ [i \in 1..4 |-> 2 * result.android[i]] = r
           /\ result.ios = u
           /\ result.web = Keyword(u[3] - u[1], u[4] - u[2])

\* C11 (amended): Android resolves a direction to the axis of the statement moved
\* onto the left edge (top, bottom, other) or the top edge (left, right) of the
\* surface: top to (0, 0) -> (0, h), bottom to (0, h) -> (0, 0), left to
\* (0, 0) -> (w, 0), right to (w, 0) -> (0, 0); iOS and the web resolve as stated.
C11_Resolver ==
    result.fn = "resolve" =>
        LET Resolve2(d, w, h) ==
                CASE d = "bottom" -> <<w, 2 * h, w, 0>>
                  [] d = "left" -> <<0, h, 2 * w, h>>
                  [] d = "right" -> <<2 * w, h, 0, h>>
                  [] OTHER -> <<w, 0, w, 2 * h>>
            r == Resolve2(call.dir, call.w, call.h)
            horizontal == call.dir \in {"left", "right"}
            Keyword(dx, dy) ==
                CASE dy > 0 -> "to bottom" [] dy < 0 -> "to top"
                  [] dx > 0 -> "to right" [] OTHER -> "to left"
            u == Resolve2(call.dir, 1, 1)
        IN /\ [i \in 1..4 |-> 2 * result.android[i]]
                  = IF horizontal THEN <<r[1], 0, r[3], 0>> ELSE <<0, r[2], 0, r[4]>>
           /\ result.ios = u
           /\ result.web = Keyword(u[3] - u[1], u[4] - u[2])

\* left resolved on a 10 x 20 surface
C11_Witness ==
    /\ result.fn = "resolve"
    /\ call.dir = "left" /\ call.w = 10 /\ call.h = 20
    /\ result.android = <<0, 0, 10, 0>>
    /\ result.ios = <<0, 1, 2, 1>>
    /\ result.web = "to right"

\* C12: a gradient of exactly one stop gives a field uniform at the alpha of that
\* stop whatever the locations sequence: the Android base bitmap has that alpha
\* everywhere, and the web view renders the one stop with that alpha at a position
\* that is a number.
C12_SingleStopUniform ==
    /\ (/\ Built
        /\ baseMaskBitmap.key[1].some /\ baseMaskBitmap.key[2].some
        /\ Len(baseMaskBitmap.key[1].v) = 1)
          => LET alphas == IF baseMaskBitmap.kind = "white" THEN {255}
                           ELSE { ColorAlpha(baseMaskBitmap.maskColors[i]) :
                                    i \in 1..Len(baseMaskBitmap.maskColors) }
             IN alphas = { ColorAlpha(baseMaskBitmap.key[1].v[1]) }
    /\ (/\ maskStyle.mask /\ props.maskOpacity >= Den
        /\ Len(props.colors) = 1 /\ ~props.colors[1].null)
          => /\ Len(maskStyle.maskImage.stops) = 1
             /\ maskStyle.maskImage.stops[1].rgba[4] = colorToRgba(props.colors[1])[4]
             /\ maskStyle.maskImage.stops[1].location[2] # 0

\* C13: on the Android view a draw while width <= 0 or height <= 0 draws the
\* content unmasked, and neither it nor onSizeChanged to such a size executes
\* updateBaseMaskBitmap, creates or recycles a bitmap, or changes baseMaskBitmap or
\* baseBitmapInvalidated; the first draw after the size became positive rebuilds and
\* leaves the bitmap of the current colors, locations, direction and size.
C13_ZeroSizePassThrough ==
    [][ /\ (lastOp' = "dispatchDraw" /\ (width <= 0 \/ height <= 0)) =>
              /\ drawn' = PassThrough
              /\ ~rebuilt'
              /\ UNCHANGED <<baseMaskBitmap, baseBitmapInvalidated, live>>
        /\ (lastOp' = "onSizeChanged" /\ (width' <= 0 \/ height' <= 0)) =>
              /\ ~rebuilt'
              /\ UNCHANGED <<baseMaskBitmap, baseBitmapInvalidated, live>>
        /\ (lastOp' = "dispatchDraw" /\ awaitingFirstDraw) =>
              /\ rebuilt'
              /\ baseMaskBitmap' # NoBitmap
              /\ baseMaskBitmap'.key = CurrentKey' ]_vars

\* A view with a gradient set and a positive intensity drew at width 0.
C13_Witness ==
    /\ lastOp = "dispatchDraw"
    /\ width = 0
    /\ colors.some /\ locations.some /\ Len(colors.v) = Len(locations.v)
    /\ maskOpacity > 0
    /\ baseBitmapInvalidated
    /\ drawn = PassThrough

\* C14: on the Android view at most one bitmap created by the view is unrecycled,
\* it is the one held in baseMaskBitmap, and after onDetachedFromWindow there is none.
C14_BitmapReleased ==
    /\ live <= 1
    /\ live = (IF Built THEN 1 ELSE 0)
    /\ lastOp = "onDetachedFromWindow" => (live = 0 /\ ~Built)

\* A draw rebuilt the bitmap over an earlier one after a change of the direction.
C14_Witness ==
    /\ scenario = [kind |-> "direction", phase |-> "drawn", n |-> 1]
    /\ rebuilt
    /\ live = 1

\* C15: on the Android view setMaskOpacity stores the clamped value of its argument
\* whatever was stored or requested before and changes nothing else of the view, and
\* the draws that follow a setMaskOpacity call composite with exactly that value.
C15_LatestIntensityDrawn ==
    [][ /\ lastOp' = "setMaskOpacity" =>
              /\ opacityArg'.some
              /\ maskOpacity' = coerceIn(opacityArg'.v, 0, Den)
              /\ UNCHANGED <<colors, locations, direction, baseMaskBitmap,
                             baseBitmapInvalidated, width, height, live>>
        /\ (lastOp' = "dispatchDraw" /\ opacityArg'.some) =>
              LET latest == coerceIn(opacityArg'.v, 0, Den)
              IN /\ latest <= 0 => drawn' = PassThrough
                 /\ drawn'.mode = "masked" =>
                       /\ drawn'.filtered = (latest < Den)
                       /\ drawn'.alphaRow = IF latest < Den
                                            THEN <<latest, 255 * (Den - latest)>>
                                            ELSE <<Den, 0>> ]_vars

\* After setMaskOpacity calls the last of which had the argument 1 (in units of
\* 1/Den), made with a redraw already requested, the view drew with that intensity.
C15_Witness ==
    /\ lastOp = "dispatchDraw"
    /\ opacityArg.some /\ opacityArg.v = 1
    /\ scenario = [kind |-> "maskOpacity", phase |-> "drawn", n |-> 0]
    /\ drawn.mode = "masked"
    /\ drawn.alphaRow = <<1, 255 * (Den - 1)>>

\* C16: unpacking a 32-bit colour x into bytes a, r, g, b with the shifts and masks
\* of the web code and packing them with ((a << 24) | (r << 16) | (g << 8) | b) >>> 0
\* gives x as an unsigned 32-bit number, also when bit 31 is set.
C16_PackUnpackRoundTrip ==
    result.fn = "roundTrip" =>
        LET u == call.x.hi % 65536
        IN /\ ~result.packed.null
           /\ result.packed.hi = u /\ result.packed.lo = call.x.lo
           /\ result.packed.hi \in 0..65535
           /\ result.argb = <<u \div 256, u % 256, call.x.lo \div 256, call.x.lo % 256>>

\* 0xFF00FFFF, alpha byte 255, went through the round trip.
C16_Witness ==
    /\ result.fn = "roundTrip"
    /\ call.x = Num(65280, 65535)
    /\ result.argb = <<255, 0, 255, 255>>
    /\ result.packed = Num(65280, 65535)

\* C17: for every base alpha A the alpha byte web adjustColorsForOpacity returns does
\* not increase as the intensity grows, below 0 and above 1 included; it is 255 at
\* intensity 0 and A at intensity 1.
C17_BlendMonotonic ==
    result.fn = "blend" =>
        LET A == (call.color.hi \div 256) % 256
        IN /\ \A i, j \in Intensities :
                  i <= j => result.alphas[i] >= result.alphas[j]
           /\ result.alphas[0] = 255
           /\ result.alphas[Den] = A
           /\ \A i \in Intensities : result.alphas[i] \in A..255

\* The blend of base alpha 12 over the intensities, strictly between 12 and 255 at
\* the first intensity above 0.
C17_Witness ==
    /\ result.fn = "blend"
    /\ call.color = Num(3090, 13398)
    /\ result.alphas[0] = 255
    /\ result.alphas[1] > 12 /\ result.alphas[1] < 255
    /\ result.alphas[Den] = 12

\* C18: a render of the web view in which only the intensity differs from the render
\* before does not run buildGradientString.
C18_IntensityReusesGradient ==
    [][(/\ platform = "web"
        /\ props'.colors = props.colors
        /\ props'.locations = props.locations
        /\ props'.direction = props.direction
        /\ props'.maskOpacity # props.maskOpacity)
         => ~gradientStringBuilt']_vars

C20_BackendsAgree ==
    result.fn = "effective" =>
        /\ result.web = result.rebuild
        /\ result.web * Den = result.cached
        /\ result.web * Den = result.ios

\* C21: the bitmap a dispatchDraw of the Android view composites is the one the view
\* holds, it is built (white or gradient, for the size of the view) and it has not
\* been recycled; no handler leaves the view holding a recycled bitmap.
C21_DrawnBitmapIntact ==
    platform = "android" =>
        /\ ~recycledHeld
        /\ (lastOp = "dispatchDraw" /\ drawn.mode = "masked") =>
               /\ drawn.bitmap = baseMaskBitmap
               /\ ~drawn.bitmap.null
               /\ drawn.bitmap.kind \in {"white", "gradient"}
               /\ drawn.bitmap.key[4] > 0 /\ drawn.bitmap.key[5] > 0

\* A draw at intensity 1/Den that rebuilt the bitmap and composited it, the view
\* holding one unrecycled bitmap.
C21_Witness ==
    /\ lastOp = "dispatchDraw"
    /\ drawn.mode = "masked"
    /\ rebuilt
    /\ live = 1
    /\ ~recycledHeld
    /\ maskOpacity = 1

\* C22: a draw of the Android view at a positive size and an intensity above 0 finds a
\* base bitmap and composites it, whatever handlers ran before, onDetachedFromWindow
\* included.
C22_MaskAfterReattach ==
    (/\ platform = "android"
     /\ lastOp = "dispatchDraw"
     /\ width > 0 /\ height > 0
     /\ maskOpacity > 0)
        => (baseMaskBitmap # NoBitmap /\ drawn.mode = "masked")

\* C23: in the gradient the web view emits at an intensity strictly between 0 and 1,
\* a null colour stop has the alpha of a blended stop of base alpha 0, which is
\* round(255 * (1 - intensity)).
C23_NullStopBlended ==
    (platform = "web" /\ props.maskOpacity > 0 /\ props.maskOpacity < Den) =>
        \A k \in 1..Len(props.colors) :
            props.colors[k].null =>
                maskStyle.maskImage.stops[k].rgba[4]
                    = (2 * 255 * (Den - props.maskOpacity) + Den) \div (2 * Den)

\* C24: on the Android view a bitmap built while colors is null, locations is null or
\* colors is empty is the white bitmap, and a draw that composites it gives every
\* pixel alpha 255 at every intensity; setColors(null) and setLocations(null) leave
\* null in the field.
C24_MissingPropsOpaque ==
    platform = "android" =>
        /\ (/\ Built
            /\ \/ ~baseMaskBitmap.key[1].some
               \/ ~baseMaskBitmap.key[2].some
               \/ Len(baseMaskBitmap.key[1].v) = 0)
              => /\ baseMaskBitmap.kind = "white"
                 /\ (lastOp = "dispatchDraw" /\ width > 0 /\ height > 0) =>
                        /\ drawn.mode \in {"masked", "unmasked"}
                        /\ drawn.mode = "masked" =>
                               /\ drawn.bitmap = baseMaskBitmap
                               /\ 255 * drawn.alphaRow[1] + drawn.alphaRow[2]
                                      = 255 * Den
        /\ (nullArg /\ lastOp = "setColors") => colors = None
        /\ (nullArg /\ lastOp = "setLocations") => locations = None

\* The view drew the white bitmap at intensity 1/Den, rebuilt after setColors(null)
\* changed the colours of a view that held a bitmap.
C24_Witness ==
    /\ lastOp = "dispatchDraw"
    /\ colors = None
    /\ locations = Some(<<0, Den>>)
    /\ scenario = [kind |-> "colors", phase |-> "drawn", n |-> 1]
    /\ drawn.mode = "masked"
    /\ drawn.bitmap.kind = "white"
    /\ maskOpacity = 1

\* C25: a setMaskOpacity call on the cached Android view whose clamped argument equals
\* the stored maskOpacity changes no field of the view and requests no redraw; one
\* whose clamped argument differs stores it and requests a redraw.
C25_RedrawIffChanged ==
    [][(lastOp' = "setMaskOpacity" /\ opacityArg'.some) =>
          LET newOpacity == coerceIn(opacityArg'.v, 0, Den)
          IN /\ newOpacity = maskOpacity =>
                    UNCHANGED <<colors, locations, direction, maskOpacity,
                                baseMaskBitmap, baseBitmapInvalidated, width, height,
                                live, dirty>>
             /\ newOpacity # maskOpacity =>
                    /\ maskOpacity' = newOpacity
                    /\ dirty' ]_vars

\* setMaskOpacity with an argument above 1 on a view that stores 1 and has no redraw
\* requested: no redraw is requested after it.
C25_Witness ==
    /\ lastOp = "setMaskOpacity"
    /\ opacityArg = Some(Den + 1)
    /\ maskOpacity = Den
    /\ ~dirty
    /\ Built

\* C26: currentOpacity of the web AnimatedGradientMaskView starts at the shared value;
\* a write of the shared value posts that value behind the calls posted before, and
\* the posted calls run oldest first; and either the shared value is written again
\* and again, or from some point on currentOpacity equals the shared value and the
\* rendered mask is the one of that value.
C26_CurrentOpacityFollows ==
    /\ currentOpacity = sharedValue
    /\ [][ /\ sharedValue' # sharedValue => posted' = Append(posted, sharedValue')
           /\ currentOpacity' # currentOpacity =>
                  /\ posted # <<>>
                  /\ currentOpacity' = Head(posted)
                  /\ posted' = Tail(posted) ]_vars
    /\ \/ []<><<sharedValue' # sharedValue>>_vars
       \/ <>[](/\ currentOpacity = sharedValue
               /\ animatedMaskStyle = AnimatedMaskStyleOf(sharedValue))

\* Two values were written and both calls are still waiting: the state holds the
\* value read at mount, the shared value is the second of the written values.
C26_Witness ==
    /\ platform = "webAnimated"
    /\ sharedValue = 0
    /\ currentOpacity = Den
    /\ posted = <<1, 0>>
    /\ animatedMaskStyle = AnimatedMaskStyleOf(Den)

\* C27: with autoSwitch on, handleScroll sets the at-bottom flag true at a distance
\* of at most 32, false at a distance above 36, and keeps it in between; it starts an
\* animation only when the flag changes, to 1 when the flag becomes true and to 0
\* when it becomes false; with autoSwitch off it changes neither the flag nor
\* maskOpacity.
C27_Hysteresis ==
    [][event'.op = "handleScroll" =>
          IF ~autoSwitch
          THEN UNCHANGED <<isAtBottomRef, isAtBottom, screenMaskOpacity, animation>>
          ELSE /\ event'.distance <= 32 => isAtBottomRef'
               /\ event'.distance > 36 => ~isAtBottomRef'
               /\ (event'.distance > 32 /\ event'.distance <= 36)
                      => isAtBottomRef' = isAtBottomRef
               /\ event'.started # -1
                      => /\ isAtBottomRef' # isAtBottomRef
                         /\ event'.started = (IF isAtBottomRef' THEN Den ELSE 0)
                         /\ animation' = [running |-> TRUE, to |-> event'.started]
               /\ event'.started = -1
                      => (animation' = animation \/ ~animation'.running)]_vars

\* The flag was true and a scroll event between the two thresholds has kept it true
\* without starting an animation.
C27_Witness ==
    /\ event.op = "handleScroll"
    /\ event.distance = 36
    /\ event.started = -1
    /\ autoSwitch
    /\ isAtBottomRef

\* C28: a scroll event at a distance above 40 while maskOpacity is above 0 cancels
\* the running animation, sets maskOpacity to 0 at once and the at-bottom ref and
\* state to false, and starts no animation; afterwards the ref and the state agree.
C28_ClearAtOnce ==
    [][(event'.op = "handleScroll" /\ autoSwitch /\ event'.distance > 40
            /\ screenMaskOpacity > 0)
          => /\ ~animation'.running
             /\ screenMaskOpacity' = 0
             /\ ~isAtBottomRef'
             /\ ~isAtBottom'
             /\ event'.cancelled
             /\ event'.started = -1
             /\ isAtBottomRef' = isAtBottom']_vars

\* A scroll event far from the bottom has cancelled the animation and started none,
\* leaving the mask at 0 and the flag false; the stress test was never on.
C28_Witness ==
    /\ event.op = "handleScroll"
    /\ event.distance > 40
    /\ event.started = -1
    /\ event.cancelled
    /\ screenMaskOpacity = 0
    /\ ~animation.running
    /\ ~isAtBottomRef
    /\ ~stressTestUsed
    /\ autoSwitch

\* C29, as stated: whenever no animation runs, maskOpacity is 1 if the at-bottom flag
\* is true and 0 if it is false, the stress test included.
C29_SettledMatchesFlag ==
    ~animation.running => screenMaskOpacity = (IF isAtBottomRef THEN Den ELSE 0)

\* C29: if the stress test was never switched on, then whenever no animation runs,
\* maskOpacity is 1 if the at-bottom flag is true and 0 if it is false.
C29_SettledMatchesFlagWithoutStressTest ==
    (~stressTestUsed /\ ~animation.running)
        => screenMaskOpacity = (IF isAtBottomRef THEN Den ELSE 0)

\* The show animation has ended at the bottom with autoSwitch switched off meanwhile.
C29_Witness ==
    /\ ~stressTestUsed
    /\ ~animation.running
    /\ isAtBottomRef
    /\ screenMaskOpacity = Den
    /\ ~autoSwitch
    /\ event.op = "animationFrame"

====

